---- MODULE Spec2Model ----
(***************************************************************************)
(* Model of the O&M portfolio tracker's calculation layer                  *)
(* (src/src/lib/calculations.ts): the tier table and tier lookup, the      *)
(* per-site fee calculator, the portfolio aggregator and the CM-days       *)
(* reconciler; of the POST /api/cm-days route handler that validates a     *)
(* usage entry, stores it and recomputes the tracking; and of the CM-days  *)
(* tracker component that edits and saves one month's usage.               *)
(*                                                                         *)
(* Numbers.  JavaScript numbers are modelled exactly: money, rates and day *)
(* counts as rationals [n, d] in lowest terms, capacities as integer kWp,  *)
(* instants as whole hours since 2023-01-01T00:00Z.  IEEE-754              *)
(* representation error is not modelled.  Date strings are the date-only   *)
(* form "YYYY-MM-DD", which new Date() reads as midnight UTC; the host's   *)
(* zone is a fixed offset from UTC (no daylight-saving change).            *)
(***************************************************************************)
EXTENDS Integers, Sequences, FiniteSets, TLC

VARIABLES
    pc,           \* position of the one call of a behaviour: "call" or "done"
    tiers,        \* the tier table argument (a sequence of RateTier)
    capacityKwp,  \* contracted capacity handed to the tier lookup, in kWp
    tierResult,   \* what determinePortfolioTier returned
    site,         \* the Site argument of calculateSiteWithAllTiers
    siteResult,   \* what calculateSiteWithAllTiers returned (or that it threw)
    sites,        \* the Site records read by the CM-days reconciler
    cmDaysUsage,  \* the CMDaysUsage records
    now,          \* the clock read by new Date(), hours since the epoch (UTC)
    tz,           \* the host's offset from UTC in hours (local = UTC + tz)
    tracking,     \* what calculateCMDaysTracking returned
    yearMonth,    \* the month handed to getContractedCapacityKwpForMonth
    monthCapacity,\* what getContractedCapacityKwpForMonth returned, in kWp
    summary,      \* what calculatePortfolioSummary returned
    earlier,      \* what an earlier call of calculateCMDaysTracking returned
    request,      \* the request handed to POST /api/cm-days
    response,     \* the response of POST /api/cm-days
    upserts,      \* how many times upsertCMDaysUsage has been called
    isLoading,    \* CMDaysTracker state: the first fetch has not settled
    error,        \* CMDaysTracker state: the message shown instead of the table
    editingMonth, \* CMDaysTracker state: the month whose row shows the input
    editValue,    \* CMDaysTracker state: the text of the input
    isSaving,     \* CMDaysTracker state: a save has been started, not settled
    fetches       \* the component's fetch() calls that have not settled yet

vars == <<pc, tiers, capacityKwp, tierResult, site, siteResult,
          sites, cmDaysUsage, now, tz, tracking, yearMonth, monthCapacity,
          summary, earlier, request, response, upserts,
          isLoading, error, editingMonth, editValue, isSaving, fetches>>

\* maxCapacityMW: number | null; null is kept apart from every capacity
Null == -1

\* onboardDate: string | null; a date string "YYYY-MM-DD" is kept as the
\* triple <<year, month, day>> it spells, null as the empty tuple
NullDate == << >>

\* spvCode: string | null; a code is kept as the one-element tuple of its
\* text, null as the empty tuple
NullSpv == << >>

\* error: string | null; a message is kept as the one-element tuple of its
\* text, null as the empty tuple
NullError == << >>

\* editingMonth: string | null; a month "YYYY-MM" is kept as the pair
\* <<year, month>> it spells, null as the empty tuple
NullMonth == << >>

----------------------------------------------------------------------------
(* Exact rationals, standing for JavaScript numbers.                       *)

Abs(x) == IF x < 0 THEN -x ELSE x

RECURSIVE GCD(_, _)
GCD(a, b) == IF b = 0 THEN a ELSE GCD(b, a % b)

\* n/d in lowest terms, d > 0
Rat(n, d) ==
    LET g == GCD(Abs(n), d)
    IN  IF n = 0 THEN [n |-> 0, d |-> 1] ELSE [n |-> n \div g, d |-> d \div g]

Zero == Rat(0, 1)
\* the two non-finite results of a division
NaN == [n |-> 0, d |-> 0]
Infinity == [n |-> 1, d |-> 0]

RInt(i) == Rat(i, 1)

\* a numeric field that a record lacks reads as undefined; kept apart from
\* every number a field can hold (sizes and costs are never negative)
Undefined == -2

\* ToNumber of a field's value: arithmetic on undefined is arithmetic on NaN
Num(x) == IF x = Undefined THEN NaN ELSE RInt(x)

\* JavaScript's +, - and *: a NaN operand gives NaN.  (Infinity only ever is
\* a final quotient, never an operand.)
RAdd(a, b) ==
    IF a = NaN \/ b = NaN THEN NaN ELSE Rat(a.n * b.d + b.n * a.d, a.d * b.d)
RSub(a, b) ==
    IF a = NaN \/ b = NaN THEN NaN ELSE Rat(a.n * b.d - b.n * a.d, a.d * b.d)
RMul(a, b) ==
    IF a = NaN \/ b = NaN THEN NaN ELSE Rat(a.n * b.n, a.d * b.d)
\* JavaScript's /: a finite quotient, or Infinity / NaN on a zero divisor
\* (a dividend here is never negative)
RDiv(a, b) ==
    IF a = NaN \/ b = NaN THEN NaN
    ELSE IF b.n = 0 THEN (IF a.n = 0 THEN NaN ELSE Infinity)
    ELSE Rat(a.n * b.d, a.d * b.n)

\* the nearest integer, a tie going away from zero
RoundHalfAwayFromZero(x) ==
    IF x.n >= 0 THEN (2 * x.n + x.d) \div (2 * x.d)
    ELSE -((2 * (-x.n) + x.d) \div (2 * x.d))

\* Math.round: the nearest integer, a tie going towards +Infinity
MathRound(x) == (2 * x.n + x.d) \div (2 * x.d)

\* Math.round(x * 10) / 10
Round1(x) == Rat(MathRound(RMul(x, RInt(10))), 10)

----------------------------------------------------------------------------
(* Tier table                                                              *)

KwpPerMW == 1000

MaxTiers == 3

RateTier(name, min, max, rate) ==
    [tierName |-> name, minCapacityMW |-> min, maxCapacityMW |-> max,
     ratePerKwp |-> rate]

DEFAULT_RATE_TIERS ==
    << RateTier("<20MW", 0, 20, Rat(20, 10)),
       RateTier("20-30MW", 20, 30, Rat(18, 10)),
       RateTier("30-40MW", 30, 40, Rat(17, 10)) >>

\* as determinePortfolioTier, but the defensive default is the first tier
DetermineFallbackFirst(totalCapacityKwp, table) ==
    LET hits == {i \in 1..Len(table) :
                    \/ table[i].maxCapacityMW = Null
                    \/ totalCapacityKwp < table[i].maxCapacityMW * KwpPerMW}
        first == CHOOSE i \in hits : \A j \in hits : i <= j
    IN  IF hits # {} THEN [index |-> first, tier |-> table[first], via |-> "scan"]
        ELSE [index |-> 1, tier |-> table[1], via |-> "fallback"]

\* determinePortfolioTier(totalCapacityMW, tiers): the for loop returns at the
\* first tier that matches and the last tier is returned after the loop.
\* totalCapacityMW is totalCapacityKwp / 1000, so totalCapacityMW < max is
\* totalCapacityKwp < max * 1000.  index is the tier's place in the table and
\* via tells which return statement was taken.
determinePortfolioTier(totalCapacityKwp, table) ==
    LET hits == {i \in 1..Len(table) :
                    \/ table[i].maxCapacityMW = Null
                    \/ totalCapacityKwp < table[i].maxCapacityMW * KwpPerMW}
        first == CHOOSE i \in hits : \A j \in hits : i <= j
    IN  IF hits # {} THEN [index |-> first, tier |-> table[first], via |-> "scan"]
        ELSE [index |-> Len(table), tier |-> table[Len(table)], via |-> "fallback"]

----------------------------------------------------------------------------
(* Site fee calculator                                                     *)

Site(size, status, date, pm, cctv, cleaning, spv) ==
    [systemSizeKwp |-> size, contractStatus |-> status, onboardDate |-> date,
     pmCost |-> pm, cctvCost |-> cctv, cleaningCost |-> cleaning,
     spvCode |-> spv]

calculateSiteFixedCosts(s) ==
    RAdd(RAdd(Num(s.pmCost), Num(s.cctvCost)), Num(s.cleaningCost))

calculatePortfolioCost(systemSizeKwp, ratePerKwp) ==
    RMul(Num(systemSizeKwp), ratePerKwp)

FixedFeeCostsOnly(siteFixedCosts, portfolioCost) == siteFixedCosts

calculateFixedFee(siteFixedCosts, portfolioCost) ==
    RAdd(siteFixedCosts, portfolioCost)

FeePerKwpUnguarded(fixedFee, systemSizeKwp, isContracted) ==
    IF ~isContracted THEN Zero ELSE RDiv(fixedFee, Num(systemSizeKwp))

\* systemSizeKwp === 0 is false of undefined
calculateFeePerKwp(fixedFee, systemSizeKwp, isContracted) ==
    IF ~isContracted \/ systemSizeKwp = 0 THEN Zero
    ELSE RDiv(fixedFee, Num(systemSizeKwp))

calculateMonthlyFee(fixedFee) == RDiv(fixedFee, RInt(12))

\* tiers.find(t => t.tierName === name) || tiers[k]: the place in the table of
\* the first tier of that name, else place k; 0 stands for undefined
TierSlot(table, name, k) ==
    LET named == {i \in 1..Len(table) : table[i].tierName = name}
    IN  IF named # {} THEN CHOOSE i \in named : \A j \in named : i <= j
        ELSE IF k <= Len(table) THEN k ELSE 0

\* calculateSiteWithAllTiers(site, tiers).  Reading ratePerKwp of an undefined
\* slot throws a TypeError before anything is returned.
calculateSiteWithAllTiers(s, table) ==
    LET siteFixedCosts == calculateSiteFixedCosts(s)
        isContracted == s.contractStatus = "Yes"
        tier20MW == TierSlot(table, "<20MW", 1)
        tier30MW == TierSlot(table, "20-30MW", 2)
        tier40MW == TierSlot(table, "30-40MW", 3)
        portfolioCost_20MW ==
            calculatePortfolioCost(s.systemSizeKwp, table[tier20MW].ratePerKwp)
        portfolioCost_30MW ==
            calculatePortfolioCost(s.systemSizeKwp, table[tier30MW].ratePerKwp)
        portfolioCost_40MW ==
            calculatePortfolioCost(s.systemSizeKwp, table[tier40MW].ratePerKwp)
        fixedFee_20MW == calculateFixedFee(siteFixedCosts, portfolioCost_20MW)
        fixedFee_30MW == calculateFixedFee(siteFixedCosts, portfolioCost_30MW)
        fixedFee_40MW == calculateFixedFee(siteFixedCosts, portfolioCost_40MW)
    IN  IF tier20MW = 0 \/ tier30MW = 0 \/ tier40MW = 0
        THEN [threw |-> "TypeError"]
        ELSE [threw |-> "no",
              site |-> s,
              siteFixedCosts |-> siteFixedCosts,
              portfolioCost_20MW |-> portfolioCost_20MW,
              portfolioCost_30MW |-> portfolioCost_30MW,
              portfolioCost_40MW |-> portfolioCost_40MW,
              fixedFee_20MW |-> fixedFee_20MW,
              fixedFee_30MW |-> fixedFee_30MW,
              fixedFee_40MW |-> fixedFee_40MW,
              feePerKwp_20MW |->
                  calculateFeePerKwp(fixedFee_20MW, s.systemSizeKwp, isContracted),
              feePerKwp_30MW |->
                  calculateFeePerKwp(fixedFee_30MW, s.systemSizeKwp, isContracted),
              feePerKwp_40MW |->
                  calculateFeePerKwp(fixedFee_40MW, s.systemSizeKwp, isContracted),
              monthlyFee |->
                  IF isContracted THEN calculateMonthlyFee(fixedFee_20MW) ELSE Zero]

----------------------------------------------------------------------------
(* Calendar and the JavaScript Date operations the reconciler uses.        *)
(* A Date is an instant: whole hours since 2023-01-01T00:00Z.  Its local   *)
(* fields are those of instant + tz.                                       *)

Years == 2023..2025

IsLeap(y) == (y % 4 = 0 /\ y % 100 # 0) \/ y % 400 = 0

DaysInMonth(y, m) ==
    IF m = 2 THEN (IF IsLeap(y) THEN 29 ELSE 28)
    ELSE IF m \in {4, 6, 9, 11} THEN 30 ELSE 31

RECURSIVE DaysBeforeYear(_)
DaysBeforeYear(y) ==
    IF y <= 2023 THEN 0
    ELSE DaysBeforeYear(y - 1) + (IF IsLeap(y - 1) THEN 366 ELSE 365)

RECURSIVE DaysBeforeMonth(_, _)
DaysBeforeMonth(y, m) ==
    IF m <= 1 THEN 0 ELSE DaysBeforeMonth(y, m - 1) + DaysInMonth(y, m - 1)

\* day number of the civil date y-m-d; d may run outside the month, as in
\* new Date(y, m, 0)
DayNumber(y, m, d) == DaysBeforeYear(y) + DaysBeforeMonth(y, m) + d - 1

YearOfDay(n) ==
    CHOOSE y \in Years : DaysBeforeYear(y) <= n /\ n < DaysBeforeYear(y + 1)
MonthOfDay(n) ==
    LET y == YearOfDay(n)
    IN  CHOOSE m \in 1..12 :
            /\ DayNumber(y, m, 1) <= n
            /\ n < DayNumber(y, m, 1) + DaysInMonth(y, m)
DayOfDay(n) == n - DayNumber(YearOfDay(n), MonthOfDay(n), 1) + 1

\* local fields of an instant
LocalDay(t) == (t + tz) \div 24
LocalHour(t) == (t + tz) % 24
getFullYear(t) == YearOfDay(LocalDay(t))
getMonth(t) == MonthOfDay(LocalDay(t)) - 1
getDate(t) == DayOfDay(LocalDay(t))

\* new Date("YYYY-MM-DD"): a date-only string is read as midnight UTC
DateFromString(date) == DayNumber(date[1], date[2], date[3]) * 24

\* new Date(year, monthIndex, day): midnight local time; monthIndex counts
\* from 0 and may be 12, day may be 0
DateFromFields(year, monthIndex, day) ==
    LET y == year + (monthIndex \div 12)
        m == (monthIndex % 12) + 1
    IN  DayNumber(y, m, day) * 24 - tz

\* d.setDate(1): the first of d's local month, local time of day kept
setDate1(t) ==
    DayNumber(getFullYear(t), getMonth(t) + 1, 1) * 24
        + LocalHour(t) - tz

\* d.setMonth(d.getMonth() + 1): the same local day and time a month later
setMonthNext(t) ==
    LET y == getFullYear(t) + ((getMonth(t) + 1) \div 12)
        m == ((getMonth(t) + 1) % 12) + 1
    IN  DayNumber(y, m, getDate(t)) * 24 + LocalHour(t) - tz

\* `${year}-${month}` with the month padded to two digits, kept as the pair of
\* numbers the string spells; yearMonth.split('-').map(Number) gives it back
YearMonthKey(t) == <<getFullYear(t), getMonth(t) + 1>>

----------------------------------------------------------------------------
(* CM days reconciler                                                      *)

\* calculateMonthlyCorrectiveDays(capacityMW)
calculateMonthlyCorrectiveDays(capacityMW) ==
    Rat(MathRound(RMul(RDiv(capacityMW, RInt(12)), RInt(10))), 10)

\* as getPortfolioStartDate, but sites are kept whatever their contractStatus
StartDateAnyStatus(list) ==
    LET dates == {list[i].onboardDate : i \in
                     {j \in 1..Len(list) : list[j].onboardDate # NullDate}}
    IN  IF dates = {} THEN NullDate
        ELSE CHOOSE a \in dates :
                \A b \in dates : DateFromString(a) <= DateFromString(b)

\* as getPortfolioStartDate, but the date that sorts last is returned
StartDateLatest(list) ==
    LET dates == {list[i].onboardDate : i \in
                     {j \in 1..Len(list) : /\ list[j].contractStatus = "Yes"
                                           /\ list[j].onboardDate # NullDate}}
    IN  IF dates = {} THEN NullDate
        ELSE CHOOSE a \in dates :
                \A b \in dates : DateFromString(b) <= DateFromString(a)

\* getPortfolioStartDate(sites): the onboardDate that sorts first by its
\* instant among contracted sites that have one, else null
getPortfolioStartDate(list) ==
    LET dates == {list[i].onboardDate : i \in
                     {j \in 1..Len(list) : /\ list[j].contractStatus = "Yes"
                                           /\ list[j].onboardDate # NullDate}}
    IN  IF dates = {} THEN NullDate
        ELSE CHOOSE a \in dates :
                \A b \in dates : DateFromString(a) <= DateFromString(b)

\* the while loop of getMonthsFromStart
RECURSIVE MonthsLoop(_, _, _)
MonthsLoop(start, nowFirst, months) ==
    IF start <= nowFirst
    THEN MonthsLoop(setMonthNext(start), nowFirst,
                    Append(months, YearMonthKey(start)))
    ELSE months

\* getMonthsFromStart(startDate); new Date() reads the clock
getMonthsFromStart(startDate) ==
    MonthsLoop(setDate1(DateFromString(startDate)), setDate1(now), << >>)

RECURSIVE SumKwp(_, _)
SumKwp(list, keep) ==
    IF list = << >> THEN 0
    ELSE (IF keep[1] THEN list[1].systemSizeKwp ELSE 0)
            + SumKwp(Tail(list), Tail(keep))

\* as getContractedCapacityKwpForMonth, but a site counts until the month's
\* last day, not from it
CapacityNotYetOnboarded(list, ym) ==
    LET endOfMonth == DateFromFields(ym[1], ym[2], 0)
        keep == [i \in 1..Len(list) |->
                    /\ list[i].contractStatus = "Yes"
                    /\ list[i].onboardDate # NullDate
                    /\ DateFromString(list[i].onboardDate) >= endOfMonth]
    IN  SumKwp(list, keep)

\* getContractedCapacityKwpForMonth(sites, yearMonth)
getContractedCapacityKwpForMonth(list, ym) ==
    LET endOfMonth == DateFromFields(ym[1], ym[2], 0)
        keep == [i \in 1..Len(list) |->
                    /\ list[i].contractStatus = "Yes"
                    /\ list[i].onboardDate # NullDate
                    /\ DateFromString(list[i].onboardDate) <= endOfMonth]
    IN  SumKwp(list, keep)

\* as UsageGet, but the key is not looked at: the last record's daysUsed
UsageGetAnyMonth(usage, ym) ==
    IF usage = << >> THEN Zero ELSE usage[Len(usage)].daysUsed

\* usageMap.get(yearMonth) || 0, usageMap built from the records in order (a
\* later record of the same month replaces an earlier one)
UsageGet(usage, ym) ==
    LET at == {i \in 1..Len(usage) : usage[i].yearMonth = ym}
    IN  IF at = {} THEN Zero
        ELSE usage[CHOOSE i \in at : \A j \in at : j <= i].daysUsed

\* as MonthEntry, but the running balance subtracts the month's usage instead
\* of the running usage
MonthEntryMonthlyUsed(ym, daysAccumulated, daysUsed, cumAcc, cumUsed) ==
    LET daysRemaining == RSub(daysAccumulated, daysUsed)
        cumulativeRemaining == RSub(cumAcc, daysUsed)
    IN  [yearMonth |-> ym,
         daysAccumulated |-> Round1(daysAccumulated),
         daysUsed |-> daysUsed,
         daysRemaining |-> Round1(daysRemaining),
         cumulativeAccumulated |-> Round1(cumAcc),
         cumulativeUsed |-> Round1(cumUsed),
         cumulativeRemaining |-> Round1(cumulativeRemaining)]

\* the entry the map callback returns for one month, given the month's
\* accrual and usage and the two running sums after this month was added
MonthEntry(ym, daysAccumulated, daysUsed, cumAcc, cumUsed) ==
    LET daysRemaining == RSub(daysAccumulated, daysUsed)
        cumulativeRemaining == RSub(cumAcc, cumUsed)
    IN  [yearMonth |-> ym,
         daysAccumulated |-> Round1(daysAccumulated),
         daysUsed |-> daysUsed,
         daysRemaining |-> Round1(daysRemaining),
         cumulativeAccumulated |-> Round1(cumAcc),
         cumulativeUsed |-> Round1(cumUsed),
         cumulativeRemaining |-> Round1(cumulativeRemaining)]

\* months.map(...) with its two running sums: the entries of the months left
\* are appended to data; returns the entries and the final sums
RECURSIVE TrackMonths(_, _, _, _, _, _)
TrackMonths(list, usage, months, cumAcc, cumUsed, data) ==
    IF months = << >>
    THEN [monthlyData |-> data, cumulativeAccumulated |-> cumAcc,
          cumulativeUsed |-> cumUsed]
    ELSE
        LET capacityMW ==
                RDiv(RInt(getContractedCapacityKwpForMonth(list, months[1])),
                     RInt(KwpPerMW))
            daysAccumulated == calculateMonthlyCorrectiveDays(capacityMW)
            daysUsed == UsageGet(usage, months[1])
            cumulativeAccumulated == RAdd(cumAcc, daysAccumulated)
            cumulativeUsed == RAdd(cumUsed, daysUsed)
            entry == MonthEntry(months[1], daysAccumulated, daysUsed,
                                cumulativeAccumulated, cumulativeUsed)
        IN  TrackMonths(list, usage, Tail(months), cumulativeAccumulated,
                        cumulativeUsed, Append(data, entry))

\* as calculateCMDaysTracking, but the totals are the running sums as they
\* stand, not rounded
TrackingTotalsUnrounded(list, usage) ==
    LET portfolioStartDate == getPortfolioStartDate(list)
        run == TrackMonths(list, usage, getMonthsFromStart(portfolioStartDate),
                           Zero, Zero, << >>)
    IN  IF portfolioStartDate = NullDate
        THEN [portfolioStartDate |-> NullDate, monthlyData |-> << >>,
              totalAccumulated |-> Zero, totalUsed |-> Zero,
              totalRemaining |-> Zero]
        ELSE [portfolioStartDate |-> portfolioStartDate,
              monthlyData |-> run.monthlyData,
              totalAccumulated |-> run.cumulativeAccumulated,
              totalUsed |-> run.cumulativeUsed,
              totalRemaining |->
                  RSub(run.cumulativeAccumulated, run.cumulativeUsed)]

\* calculateCMDaysTracking(sites, cmDaysUsage)
calculateCMDaysTracking(list, usage) ==
    LET portfolioStartDate == getPortfolioStartDate(list)
        run == TrackMonths(list, usage, getMonthsFromStart(portfolioStartDate),
                           Zero, Zero, << >>)
    IN  IF portfolioStartDate = NullDate
        THEN [portfolioStartDate |-> NullDate, monthlyData |-> << >>,
              totalAccumulated |-> Zero, totalUsed |-> Zero,
              totalRemaining |-> Zero]
        ELSE [portfolioStartDate |-> portfolioStartDate,
              monthlyData |-> run.monthlyData,
              totalAccumulated |-> Round1(run.cumulativeAccumulated),
              totalUsed |-> Round1(run.cumulativeUsed),
              totalRemaining |->
                  Round1(RSub(run.cumulativeAccumulated, run.cumulativeUsed))]

----------------------------------------------------------------------------
(* Portfolio aggregator                                                    *)

\* names that the object literal {} inherits from Object.prototype with a
\* function as value (some of them)
ObjectPrototypeKeys == {"constructor", "toString", "valueOf", "hasOwnProperty"}

\* site.spvCode || 'Unassigned': null and the empty string are falsy
SpvKey(s) ==
    IF s.spvCode = NullSpv \/ s.spvCode = <<"">> THEN "Unassigned"
    ELSE s.spvCode[1]

\* a value held by sitesBySpv: the number n, or (isNumber = FALSE) the string
\* that + 1 made of an inherited function, its source text followed by n "1"s
SpvValue(isNumber, n) == [isNumber |-> isNumber, n |-> n]

\* sitesBySpv[spv] = (sitesBySpv[spv] || 0) + 1 for the sites of list in turn.
\* The read finds an own property, else an inherited one, else undefined; +
\* adds numbers and concatenates when the left operand is a function or string
RECURSIVE CountBySpv(_, _)
CountBySpv(list, acc) ==
    IF list = << >> THEN acc
    ELSE
        LET spv == SpvKey(list[1])
            value ==
                IF spv \in DOMAIN acc THEN SpvValue(acc[spv].isNumber, acc[spv].n + 1)
                ELSE IF spv \in ObjectPrototypeKeys THEN SpvValue(FALSE, 1)
                ELSE SpvValue(TRUE, 1)
        IN  CountBySpv(Tail(list), (spv :> value) @@ acc)

\* sitesWithCalcs.reduce((sum, s) => sum + s.monthlyFee, 0) over the
\* contracted sites, each priced on the default table
RECURSIVE SumMonthlyFee(_)
SumMonthlyFee(list) ==
    IF list = << >> THEN Zero
    ELSE RAdd(IF list[1].contractStatus = "Yes"
              THEN calculateSiteWithAllTiers(list[1], DEFAULT_RATE_TIERS).monthlyFee
              ELSE Zero,
              SumMonthlyFee(Tail(list)))

\* calculatePortfolioSummary(sites)
calculatePortfolioSummary(list) ==
    LET all == [i \in 1..Len(list) |-> TRUE]
        contracted == [i \in 1..Len(list) |-> list[i].contractStatus = "Yes"]
        totalCapacityKwp == SumKwp(list, all)
        contractedCapacityKwp == SumKwp(list, contracted)
        currentTier == determinePortfolioTier(contractedCapacityKwp, DEFAULT_RATE_TIERS)
    IN  [totalSites |-> Len(list),
         contractedSites |-> Cardinality({i \in 1..Len(list) : contracted[i]}),
         totalCapacityKwp |-> totalCapacityKwp,
         contractedCapacityKwp |-> contractedCapacityKwp,
         currentTier |-> currentTier.tier.tierName,
         totalMonthlyFee |-> SumMonthlyFee(list),
         correctiveDaysAllowed |->
             calculateMonthlyCorrectiveDays(
                 RDiv(RInt(contractedCapacityKwp), RInt(KwpPerMW))),
         sitesBySpv |-> CountBySpv(list, << >>)]

----------------------------------------------------------------------------
(* Inputs of the tier lookup and of the fee calculator                     *)

\* tier names, upper limits and rates by place in a generated table
PlaceNames == <<"<20MW", "20-30MW", "30-40MW", "40-50MW", "50-60MW">>
PlaceMax == <<20, 30, 40, 50, 60>>
PlaceRate == <<Rat(20, 10), Rat(18, 10), Rat(17, 10), Rat(16, 10), Rat(15, 10)>>

MaxChoices == {20, 30, 40, Null}
NameChoices == {"<20MW", "20-30MW", "30-40MW", "base"}

\* every table of 1..MaxTiers tiers over MaxChoices (ordered or not, with or
\* without an unbounded tier, anywhere), named and priced by place
TablesByMax ==
    UNION {{[i \in 1..n |->
                RateTier(PlaceNames[i], IF i = 1 THEN 0 ELSE PlaceMax[i - 1],
                         m[i], PlaceRate[i])] : m \in [1..n -> MaxChoices]}
           : n \in 1..MaxTiers}

\* every table of 1..MaxTiers tiers over NameChoices, limits and rates by place
TablesByName ==
    UNION {{[i \in 1..n |->
                RateTier(nm[i], IF i = 1 THEN 0 ELSE PlaceMax[i - 1],
                         IF i = n THEN Null ELSE PlaceMax[i], PlaceRate[i])]
            : nm \in [1..n -> NameChoices]}
           : n \in 1..MaxTiers}

CapacityChoices ==
    {0, 10000, 19999, 20000, 25000, 29999, 30000, 39999, 40000, 45000}

SiteChoices ==
    {Site(size, status, NullDate, pm, cctv, cleaning, NullSpv)
        : size \in {0, 500, 10000}, status \in {"Yes", "No"},
          pm \in {0, 500}, cctv \in {0, 100}, cleaning \in {0, 50}}

NoTier == [via |-> "none"]
NoSiteResult == [threw |-> "none"]
NoTracking == [portfolioStartDate |-> "none"]
NoSummary == [totalSites |-> -1]
NoRequest == [body |-> "none"]
NoResponse == [status |-> 0]
IdleSite == Site(0, "No", NullDate, 0, 0, 0, NullSpv)

----------------------------------------------------------------------------
(* The tier lookup on its own: one call of determinePortfolioTier          *)

InitTier ==
    /\ pc = "call"
    /\ tiers \in TablesByMax
    /\ capacityKwp \in CapacityChoices
    /\ tierResult = NoTier
    /\ site = IdleSite
    /\ siteResult = NoSiteResult
    /\ sites = << >>
    /\ cmDaysUsage = << >>
    /\ now = 0
    /\ tz = 0
    /\ tracking = NoTracking
    /\ yearMonth = << >>
    /\ monthCapacity = 0
    /\ summary = NoSummary
    /\ earlier = NoTracking
    /\ request = NoRequest
    /\ response = NoResponse
    /\ upserts = 0
    /\ isLoading = TRUE
    /\ error = NullError
    /\ editingMonth = NullMonth
    /\ editValue = << >>
    /\ isSaving = FALSE
    /\ fetches = << >>

DeterminePortfolioTier ==
    /\ pc = "call"
    /\ tierResult' = determinePortfolioTier(capacityKwp, tiers)
    /\ pc' = "done"
    /\ UNCHANGED <<tiers, capacityKwp, site, siteResult, sites, cmDaysUsage,
                   now, tz, tracking, yearMonth, monthCapacity,
                   summary, earlier, request, response, upserts,
                   isLoading, error, editingMonth, editValue, isSaving,
                   fetches>>

NextTier == DeterminePortfolioTier

SpecTier == InitTier /\ [][NextTier]_vars

----------------------------------------------------------------------------
(* The fee calculator on its own: one call of calculateSiteWithAllTiers    *)

InitFee ==
    /\ pc = "call"
    /\ tiers \in TablesByName \cup {DEFAULT_RATE_TIERS}
    /\ capacityKwp = 0
    /\ tierResult = NoTier
    /\ site \in SiteChoices
    /\ siteResult = NoSiteResult
    /\ sites = << >>
    /\ cmDaysUsage = << >>
    /\ now = 0
    /\ tz = 0
    /\ tracking = NoTracking
    /\ yearMonth = << >>
    /\ monthCapacity = 0
    /\ summary = NoSummary
    /\ earlier = NoTracking
    /\ request = NoRequest
    /\ response = NoResponse
    /\ upserts = 0
    /\ isLoading = TRUE
    /\ error = NullError
    /\ editingMonth = NullMonth
    /\ editValue = << >>
    /\ isSaving = FALSE
    /\ fetches = << >>

CalculateSiteWithAllTiers ==
    /\ pc = "call"
    /\ siteResult' = calculateSiteWithAllTiers(site, tiers)
    /\ pc' = "done"
    /\ UNCHANGED <<tiers, capacityKwp, tierResult, site, sites, cmDaysUsage,
                   now, tz, tracking, yearMonth, monthCapacity,
                   summary, earlier, request, response, upserts,
                   isLoading, error, editingMonth, editValue, isSaving,
                   fetches>>

NextFee == CalculateSiteWithAllTiers

SpecFee == InitFee /\ [][NextFee]_vars

----------------------------------------------------------------------------
(* The fee calculator on a partially filled record: one call of            *)
(* calculateSiteWithAllTiers, default table, on a site record that may     *)
(* lack systemSizeKwp or any of its three costs                            *)

PartialSiteChoices ==
    {Site(size, status, NullDate, pm, cctv, cleaning, NullSpv)
        : size \in {Undefined, 0, 500}, status \in {"Yes", "No"},
          pm \in {Undefined, 0, 500}, cctv \in {Undefined, 100},
          cleaning \in {Undefined, 50}}

InitFeePartial ==
    /\ pc = "call"
    /\ tiers = DEFAULT_RATE_TIERS
    /\ capacityKwp = 0
    /\ tierResult = NoTier
    /\ site \in PartialSiteChoices
    /\ siteResult = NoSiteResult
    /\ sites = << >>
    /\ cmDaysUsage = << >>
    /\ now = 0
    /\ tz = 0
    /\ tracking = NoTracking
    /\ yearMonth = << >>
    /\ monthCapacity = 0
    /\ summary = NoSummary
    /\ earlier = NoTracking
    /\ request = NoRequest
    /\ response = NoResponse
    /\ upserts = 0
    /\ isLoading = TRUE
    /\ error = NullError
    /\ editingMonth = NullMonth
    /\ editValue = << >>
    /\ isSaving = FALSE
    /\ fetches = << >>

SpecFeePartial == InitFeePartial /\ [][NextFee]_vars

----------------------------------------------------------------------------
(* The reconciler on its own: one call of calculateCMDaysTracking on a     *)
(* store of sites and usage records, at some time on some host             *)

MaxSites == 2
MaxUsage == 1

\* onboard dates: the last day of a 31-day month across a year end, a day
\* inside a month, the last day of a leap February and the day after it.
\* 12 MW accrues 1.0 day a month; 3 MW accrues 0.25, a tie at one decimal
TrackedSiteChoices ==
    {Site(12000, "Yes", <<2023, 12, 31>>, 0, 0, 0, NullSpv),
     Site(3000, "Yes", <<2024, 1, 15>>, 0, 0, 0, NullSpv),
     Site(12000, "Yes", <<2024, 2, 29>>, 0, 0, 0, NullSpv),
     Site(3000, "Yes", <<2024, 3, 1>>, 0, 0, 0, NullSpv),
     Site(12000, "Yes", NullDate, 0, 0, 0, NullSpv),
     Site(12000, "No", <<2023, 12, 31>>, 0, 0, 0, NullSpv)}

CMDaysUsage(ym, daysUsed) == [yearMonth |-> ym, daysUsed |-> daysUsed]

\* usage of 1.25 days (not a multiple of 0.1) or 2.5 days, in a month of the
\* window or in one before it
UsageChoices ==
    {CMDaysUsage(ym, used) : ym \in {<<2023, 6>>, <<2024, 1>>, <<2024, 3>>},
                             used \in {Rat(5, 4), Rat(5, 2)}}

SeqsUpTo(S, n) == UNION {[1..k -> S] : k \in 0..n}

\* usage recorded for a month before every onboard date and for a month
\* after some of them
UsageBeforeAndAfterStart ==
    <<CMDaysUsage(<<2023, 6>>, Rat(5, 2)), CMDaysUsage(<<2024, 1>>, Rat(5, 4))>>

\* the store keeps one usage record per month
UsageLists ==
    {u \in SeqsUpTo(UsageChoices, MaxUsage) :
        \A i, j \in 1..Len(u) : u[i].yearMonth = u[j].yearMonth => i = j}
    \cup {UsageBeforeAndAfterStart}

\* instants of the call: 2024-01-20T12Z, 2024-03-31T23Z, 2024-04-09T23Z and
\* 2024-04-10T12Z
NowChoices ==
    {DayNumber(2024, 1, 20) * 24 + 12, DayNumber(2024, 3, 31) * 24 + 23,
     DayNumber(2024, 4, 9) * 24 + 23, DayNumber(2024, 4, 10) * 24 + 12}

\* hosts at UTC-5, UTC and UTC+1
ZoneChoices == {-5, 0, 1}

InitCM ==
    /\ pc = "call"
    /\ tiers = DEFAULT_RATE_TIERS
    /\ capacityKwp = 0
    /\ tierResult = NoTier
    /\ site = IdleSite
    /\ siteResult = NoSiteResult
    /\ sites \in SeqsUpTo(TrackedSiteChoices, MaxSites)
    /\ cmDaysUsage \in UsageLists
    /\ now \in NowChoices
    /\ tz \in ZoneChoices
    /\ tracking = NoTracking
    /\ yearMonth = << >>
    /\ monthCapacity = 0
    /\ summary = NoSummary
    /\ earlier = NoTracking
    /\ request = NoRequest
    /\ response = NoResponse
    /\ upserts = 0
    /\ isLoading = TRUE
    /\ error = NullError
    /\ editingMonth = NullMonth
    /\ editValue = << >>
    /\ isSaving = FALSE
    /\ fetches = << >>

CalculateCMDaysTracking ==
    /\ pc = "call"
    /\ tracking' = calculateCMDaysTracking(sites, cmDaysUsage)
    /\ pc' = "done"
    /\ UNCHANGED <<tiers, capacityKwp, tierResult, site, siteResult, sites,
                   cmDaysUsage, now, tz, yearMonth, monthCapacity,
                   summary, earlier, request, response, upserts,
                   isLoading, error, editingMonth, editValue, isSaving,
                   fetches>>

NextCM == CalculateCMDaysTracking

SpecCM == InitCM /\ [][NextCM]_vars

----------------------------------------------------------------------------
(* The reconciler called twice on the same records: a call of              *)
(* calculateCMDaysTracking, then the clock moves on, then a second call    *)

\* the first result is kept and the clock read by new Date() moves on
TimePasses ==
    /\ pc = "done"
    /\ earlier' = tracking
    /\ now' \in {t \in NowChoices : t >= now}
    /\ pc' = "recall"
    /\ UNCHANGED <<tiers, capacityKwp, tierResult, site, siteResult, sites,
                   cmDaysUsage, tz, tracking, yearMonth, monthCapacity,
                   summary, request, response, upserts,
                   isLoading, error, editingMonth, editValue, isSaving,
                   fetches>>

CalculateCMDaysTrackingAgain ==
    /\ pc = "recall"
    /\ tracking' = calculateCMDaysTracking(sites, cmDaysUsage)
    /\ pc' = "redone"
    /\ UNCHANGED <<tiers, capacityKwp, tierResult, site, siteResult, sites,
                   cmDaysUsage, now, tz, yearMonth, monthCapacity,
                   summary, earlier, request, response, upserts,
                   isLoading, error, editingMonth, editValue, isSaving,
                   fetches>>

NextAgain ==
    \/ CalculateCMDaysTracking
    \/ TimePasses
    \/ CalculateCMDaysTrackingAgain

SpecAgain == InitCM /\ [][NextAgain]_vars

----------------------------------------------------------------------------
(* POST /api/cm-days                                                       *)

\* a value read from the parsed JSON body; a string is kept as the tuple of
\* its characters
JsonUndefined == [type |-> "undefined", text |-> << >>, value |-> Zero]
JsonNull == [type |-> "null", text |-> << >>, value |-> Zero]
JsonString(text) == [type |-> "string", text |-> text, value |-> Zero]
JsonNumber(value) == [type |-> "number", text |-> << >>, value |-> value]

\* typeof v
TypeOf(v) == IF v.type = "null" THEN "object" ELSE v.type

\* !v
Falsy(v) ==
    \/ v.type \in {"undefined", "null"}
    \/ v.type = "string" /\ v.text = << >>
    \/ v.type = "number" /\ v.value = Zero

DigitChars == <<"0", "1", "2", "3", "4", "5", "6", "7", "8", "9">>

IsDigit(c) == \E d \in 1..10 : DigitChars[d] = c

DigitValue(c) == (CHOOSE d \in 1..10 : DigitChars[d] = c) - 1

\* /^\d{4}-\d{2}$/.test(v), for v a string or null (the text "null")
YearMonthRegExpTest(v) ==
    /\ v.type = "string"
    /\ Len(v.text) = 7
    /\ \A i \in {1, 2, 3, 4, 6, 7} : IsDigit(v.text[i])
    /\ v.text[5] = "-"

\* the month key a string "dddd-dd" spells, as the CMDaysUsage records and
\* the month entries hold it
YearMonthOfText(text) ==
    << 1000 * DigitValue(text[1]) + 100 * DigitValue(text[2])
         + 10 * DigitValue(text[3]) + DigitValue(text[4]),
       10 * DigitValue(text[6]) + DigitValue(text[7]) >>

\* upsertCMDaysUsage(yearMonth, daysUsed, notes) on the store's usage records:
\* the record of that month is overwritten, else a record is added (notes and
\* timestamps are kept with the record and read by nothing here)
upsertCMDaysUsage(usage, ym, daysUsed) ==
    LET at == {i \in 1..Len(usage) : usage[i].yearMonth = ym}
    IN  IF at = {} THEN Append(usage, CMDaysUsage(ym, daysUsed))
        ELSE [i \in 1..Len(usage) |->
                IF i \in at THEN CMDaysUsage(ym, daysUsed) ELSE usage[i]]

Answer(status, success, data) ==
    [status |-> status, success |-> success, data |-> data]

\* POST(request) on a store holding siteStore and usageStore: the response,
\* the usage records afterwards and whether upsertCMDaysUsage was called.
\* A body that request.json() cannot parse, or that is null, throws inside
\* the try block and is answered by the catch block
POST(req, siteStore, usageStore) ==
    LET stored ==
            upsertCMDaysUsage(usageStore, YearMonthOfText(req.yearMonth.text),
                              req.daysUsed.value)
        rejected ==
            [response |-> Answer(400, FALSE, NoTracking),
             cmDaysUsage |-> usageStore, upserted |-> FALSE]
    IN  IF req.body = "malformed"
        THEN [response |-> Answer(500, FALSE, NoTracking),
              cmDaysUsage |-> usageStore, upserted |-> FALSE]
        ELSE IF Falsy(req.yearMonth) \/ req.daysUsed.type = "undefined"
        THEN rejected
        ELSE IF ~YearMonthRegExpTest(req.yearMonth)
        THEN rejected
        ELSE IF TypeOf(req.daysUsed) # "number" \/ req.daysUsed.value.n < 0
        THEN rejected
        ELSE [response |->
                  Answer(200, TRUE, calculateCMDaysTracking(siteStore, stored)),
              cmDaysUsage |-> stored, upserted |-> TRUE]

\* yearMonth of the body: missing, null, empty, a month of the window, a month
\* before it, month 13, and texts that are not four digits, "-", two digits
YearMonthValues ==
    {JsonUndefined, JsonNull, JsonString(<< >>),
     JsonString(<<"2", "0", "2", "4", "-", "0", "3">>),
     JsonString(<<"2", "0", "2", "3", "-", "0", "6">>),
     JsonString(<<"2", "0", "2", "4", "-", "1", "3">>),
     JsonString(<<"2", "0", "2", "4", "-", "3">>),
     JsonString(<<"2", "4", "-", "0", "3">>),
     JsonString(<<"2", "0", "2", "4", "/", "0", "3">>),
     JsonString(<<"2", "0", "2", "4", "-", "0", "3", "-", "0", "1">>),
     JsonString(<<"x", "0", "2", "4", "-", "0", "3">>)}

\* daysUsed of the body: missing, null, the string "3", -1, 0, 1.25 and 2.5
DaysUsedValues ==
    {JsonUndefined, JsonNull, JsonString(<<"3">>), JsonNumber(RInt(-1)),
     JsonNumber(Zero), JsonNumber(Rat(5, 4)), JsonNumber(Rat(5, 2))}

RequestChoices ==
    {[body |-> "object", yearMonth |-> ym, daysUsed |-> used]
        : ym \in YearMonthValues, used \in DaysUsedValues}
    \cup {[body |-> "malformed", yearMonth |-> JsonUndefined,
           daysUsed |-> JsonUndefined]}

InitPost ==
    /\ pc = "call"
    /\ tiers = DEFAULT_RATE_TIERS
    /\ capacityKwp = 0
    /\ tierResult = NoTier
    /\ site = IdleSite
    /\ siteResult = NoSiteResult
    /\ sites \in SeqsUpTo(TrackedSiteChoices, 1)
    /\ cmDaysUsage \in UsageLists
    /\ now = DayNumber(2024, 4, 10) * 24 + 12
    /\ tz = 0
    /\ tracking = NoTracking
    /\ yearMonth = << >>
    /\ monthCapacity = 0
    /\ summary = NoSummary
    /\ earlier = NoTracking
    /\ request \in RequestChoices
    /\ response = NoResponse
    /\ upserts = 0
    /\ isLoading = TRUE
    /\ error = NullError
    /\ editingMonth = NullMonth
    /\ editValue = << >>
    /\ isSaving = FALSE
    /\ fetches = << >>

\* the handler, from the request to the response
PostCMDays ==
    /\ pc = "call"
    /\ LET done == POST(request, sites, cmDaysUsage)
       IN  /\ response' = done.response
           /\ cmDaysUsage' = done.cmDaysUsage
           /\ upserts' = IF done.upserted THEN upserts + 1 ELSE upserts
    /\ pc' = "done"
    /\ UNCHANGED <<tiers, capacityKwp, tierResult, site, siteResult, sites,
                   now, tz, tracking, yearMonth, monthCapacity,
                   summary, earlier, request,
                   isLoading, error, editingMonth, editValue, isSaving,
                   fetches>>

NextPost == PostCMDays

SpecPost == InitPost /\ [][NextPost]_vars

----------------------------------------------------------------------------
(* The month capacity on its own: one call of                              *)
(* getContractedCapacityKwpForMonth                                        *)

MonthChoices == {<<2023, 12>>, <<2024, 1>>, <<2024, 2>>, <<2024, 3>>}

InitMonth ==
    /\ pc = "call"
    /\ tiers = DEFAULT_RATE_TIERS
    /\ capacityKwp = 0
    /\ tierResult = NoTier
    /\ site = IdleSite
    /\ siteResult = NoSiteResult
    /\ sites \in SeqsUpTo(TrackedSiteChoices, MaxSites)
    /\ cmDaysUsage = << >>
    /\ now = 0
    /\ tz \in ZoneChoices
    /\ tracking = NoTracking
    /\ yearMonth \in MonthChoices
    /\ monthCapacity = 0
    /\ summary = NoSummary
    /\ earlier = NoTracking
    /\ request = NoRequest
    /\ response = NoResponse
    /\ upserts = 0
    /\ isLoading = TRUE
    /\ error = NullError
    /\ editingMonth = NullMonth
    /\ editValue = << >>
    /\ isSaving = FALSE
    /\ fetches = << >>

GetContractedCapacityKwpForMonth ==
    /\ pc = "call"
    /\ monthCapacity' = getContractedCapacityKwpForMonth(sites, yearMonth)
    /\ pc' = "done"
    /\ UNCHANGED <<tiers, capacityKwp, tierResult, site, siteResult, sites,
                   cmDaysUsage, now, tz, tracking, yearMonth,
                   summary, earlier, request, response, upserts,
                   isLoading, error, editingMonth, editValue, isSaving,
                   fetches>>

NextMonth == GetContractedCapacityKwpForMonth

SpecMonth == InitMonth /\ [][NextMonth]_vars

----------------------------------------------------------------------------
(* The aggregator on its own: one call of calculatePortfolioSummary        *)

\* SPV codes: null, the empty string, two codes, the label that stands for no
\* code, and a code that is the name of a member of Object.prototype
SpvChoices ==
    {NullSpv, <<"">>, <<"SPV1">>, <<"SPV2">>, <<"Unassigned">>, <<"constructor">>}

SummarySiteChoices ==
    {Site(size, status, NullDate, 0, 0, 0, spv)
        : size \in {5000, 12000}, status \in {"Yes", "No"}, spv \in SpvChoices}

InitSummary ==
    /\ pc = "call"
    /\ tiers = DEFAULT_RATE_TIERS
    /\ capacityKwp = 0
    /\ tierResult = NoTier
    /\ site = IdleSite
    /\ siteResult = NoSiteResult
    /\ sites \in SeqsUpTo(SummarySiteChoices, MaxSites)
    /\ cmDaysUsage = << >>
    /\ now = 0
    /\ tz = 0
    /\ tracking = NoTracking
    /\ yearMonth = << >>
    /\ monthCapacity = 0
    /\ summary = NoSummary
    /\ earlier = NoTracking
    /\ request = NoRequest
    /\ response = NoResponse
    /\ upserts = 0
    /\ isLoading = TRUE
    /\ error = NullError
    /\ editingMonth = NullMonth
    /\ editValue = << >>
    /\ isSaving = FALSE
    /\ fetches = << >>

CalculatePortfolioSummary ==
    /\ pc = "call"
    /\ summary' = calculatePortfolioSummary(sites)
    /\ pc' = "done"
    /\ UNCHANGED <<tiers, capacityKwp, tierResult, site, siteResult, sites,
                   cmDaysUsage, now, tz, tracking, yearMonth, monthCapacity,
                   earlier, request, response, upserts,
                   isLoading, error, editingMonth, editValue, isSaving,
                   fetches>>

NextSummary == CalculatePortfolioSummary

SpecSummary == InitSummary /\ [][NextSummary]_vars

----------------------------------------------------------------------------
(* Claims about the tier lookup (checked under SpecTier)                   *)

Matches(t, c) == t.maxCapacityMW = Null \/ c < t.maxCapacityMW * KwpPerMW

\* exactly one tier of the table is unbounded and it is the last one
EndsUnbounded(table) ==
    {i \in 1..Len(table) : table[i].maxCapacityMW = Null} = {Len(table)}

\* C1: on the default table determinePortfolioTier returns the first tier, in
\* table order, whose maxCapacityMW is null or strictly greater than the
\* capacity; so a capacity equal to a tier's maxCapacityMW is never placed in
\* that tier, and 20 <= c < 30 resolves to '20-30MW'.
C1_FirstStrictlyGreaterTier ==
    (pc = "done" /\ tiers = DEFAULT_RATE_TIERS) =>
        /\ Matches(tierResult.tier, capacityKwp)
        /\ \A j \in 1..(tierResult.index - 1) : ~Matches(tiers[j], capacityKwp)
        /\ tierResult.tier.maxCapacityMW * KwpPerMW # capacityKwp
        /\ (20 * KwpPerMW <= capacityKwp /\ capacityKwp < 30 * KwpPerMW)
              => tierResult.tier.tierName = "20-30MW"

\* C2: tier selection is monotonic: for capacities c1 <= c2 the tier selected
\* for c2 never stands before the tier selected for c1 in the table.
C2_TierSelectionMonotonic ==
    pc = "done" =>
        \A c2 \in CapacityChoices :
            capacityKwp <= c2 =>
                tierResult.index <= determinePortfolioTier(c2, tiers).index

\* a table without an unbounded tier, a capacity in its first band, and a
\* larger capacity that runs past every limit
C2_Witness ==
    /\ pc = "done"
    /\ Len(tiers) = 3
    /\ \A i \in 1..Len(tiers) : tiers[i].maxCapacityMW # Null
    /\ tierResult.index = 1
    /\ tierResult.via = "scan"
    /\ \E c2 \in CapacityChoices :
          /\ capacityKwp < c2
          /\ \A i \in 1..Len(tiers) : ~Matches(tiers[i], c2)

\* C3: the default tier table ends with its one unbounded tier, so on it the
\* lookup always returns from inside the scan and never through the fallback.
C3_DefaultTableEndsUnbounded ==
    (pc = "done" /\ tiers = DEFAULT_RATE_TIERS) =>
        /\ tierResult.via = "scan"
        /\ EndsUnbounded(tiers)

----------------------------------------------------------------------------
(* Claims about the fee calculator (checked under SpecFee)                 *)

Returned == pc = "done" /\ siteResult.threw = "no"

\* the tiers behind the three returned columns, in the order 20MW, 30MW, 40MW
SlotTiers ==
    << tiers[TierSlot(tiers, "<20MW", 1)],
       tiers[TierSlot(tiers, "20-30MW", 2)],
       tiers[TierSlot(tiers, "30-40MW", 3)] >>

\* (pmCost + cctvCost + cleaningCost) + systemSizeKwp x rate, as num / den
FeeNum(s, t) ==
    (s.pmCost + s.cctvCost + s.cleaningCost) * t.ratePerKwp.d
        + s.systemSizeKwp * t.ratePerKwp.n
FeeDen(s, t) == t.ratePerKwp.d

\* x = num / den, for a finite x
IsQuotient(x, num, den) == x.d # 0 /\ x.n * den = num * x.d

FeePerKwpColumns ==
    <<siteResult.feePerKwp_20MW, siteResult.feePerKwp_30MW,
      siteResult.feePerKwp_40MW>>
FixedFeeColumns ==
    <<siteResult.fixedFee_20MW, siteResult.fixedFee_30MW,
      siteResult.fixedFee_40MW>>
PortfolioCostColumns ==
    <<siteResult.portfolioCost_20MW, siteResult.portfolioCost_30MW,
      siteResult.portfolioCost_40MW>>

\* C4: for every tier column, feePerKwp is fixedFee / systemSizeKwp when the
\* site is contracted and systemSizeKwp > 0, and exactly 0 otherwise; no
\* division by zero shows in the result.
C4_FeePerKwp ==
    Returned =>
        \A k \in 1..3 :
            IF site.contractStatus = "Yes" /\ site.systemSizeKwp > 0
            THEN IsQuotient(FeePerKwpColumns[k], FeeNum(site, SlotTiers[k]),
                            FeeDen(site, SlotTiers[k]) * site.systemSizeKwp)
            ELSE FeePerKwpColumns[k] = Zero

\* a contracted site of size 0 with costs to divide
C4_Witness ==
    /\ Returned
    /\ site.contractStatus = "Yes"
    /\ site.systemSizeKwp = 0
    /\ siteResult.siteFixedCosts.n > 0
    /\ siteResult.feePerKwp_20MW = Zero

\* C5: for every tier table monthlyFee is the fixed fee at the FIRST tier of
\* the table divided by 12 for a contracted site and 0 otherwise, however the
\* tiers are named.
C5_MonthlyFeeAtFirstTier ==
    Returned =>
        IF site.contractStatus = "Yes"
        THEN IsQuotient(siteResult.monthlyFee, FeeNum(site, tiers[1]),
                        FeeDen(site, tiers[1]) * 12)
        ELSE siteResult.monthlyFee = Zero

\* C6: for every tier column the returned fixedFee is the returned
\* siteFixedCosts plus the returned portfolioCost of that column, with
\* siteFixedCosts = pmCost + cctvCost + cleaningCost and
\* portfolioCost = systemSizeKwp x the tier's ratePerKwp.
C6_FixedFeeAdditive ==
    Returned =>
        /\ siteResult.siteFixedCosts
              = RInt(site.pmCost + site.cctvCost + site.cleaningCost)
        /\ \A k \in 1..3 :
              /\ IsQuotient(PortfolioCostColumns[k],
                            site.systemSizeKwp * SlotTiers[k].ratePerKwp.n,
                            SlotTiers[k].ratePerKwp.d)
              /\ IsQuotient(FixedFeeColumns[k],
                            siteResult.siteFixedCosts.n * PortfolioCostColumns[k].d
                                + PortfolioCostColumns[k].n,
                            PortfolioCostColumns[k].d)

\* both summands are non-zero and the columns differ
C6_Witness ==
    /\ Returned
    /\ siteResult.siteFixedCosts.n > 0
    /\ site.systemSizeKwp > 0
    /\ siteResult.fixedFee_20MW # siteResult.fixedFee_30MW
    /\ siteResult.fixedFee_30MW # siteResult.fixedFee_40MW

----------------------------------------------------------------------------
(* Claims about the CM days reconciler (checked under SpecCM and SpecMonth)*)

Tracked == pc = "done" /\ tracking.portfolioStartDate # NullDate

Entries == tracking.monthlyData

\* running totals, at full precision, of the per-month figures up to entry k
RECURSIVE AccruedUpTo(_)
AccruedUpTo(k) ==
    IF k = 0 THEN Zero ELSE RAdd(AccruedUpTo(k - 1), Entries[k].daysAccumulated)

RECURSIVE UsedUpTo(_)
UsedUpTo(k) ==
    IF k = 0 THEN Zero ELSE RAdd(UsedUpTo(k - 1), Entries[k].daysUsed)

\* x is a whole number of tenths
IsTenth(x) == 10 % x.d = 0

\* |x| <= 1/10
WithinATenth(x) == Abs(x.n) * 10 <= x.d

\* emitted balance minus (emitted accumulated minus emitted used), entry k
BalanceGap(k) ==
    RSub(Entries[k].cumulativeRemaining,
         RSub(Entries[k].cumulativeAccumulated, Entries[k].cumulativeUsed))

\* C7 (as claimed): in every month entry the emitted cumulativeRemaining
\* equals the emitted cumulativeAccumulated minus the emitted cumulativeUsed,
\* also when daysUsed values are not multiples of 0.1.
C7_EmittedBalanceExact ==
    Tracked => \A k \in 1..Len(Entries) : BalanceGap(k) = Zero

\* C7 (amended): the emitted cumulativeRemaining differs from the emitted
\* cumulativeAccumulated minus the emitted cumulativeUsed by at most 0.1, and
\* equals it whenever the running total of daysUsed is a multiple of 0.1.
C7_EmittedBalanceWithinATenth ==
    Tracked =>
        \A k \in 1..Len(Entries) :
            /\ WithinATenth(BalanceGap(k))
            /\ IsTenth(UsedUpTo(k)) => BalanceGap(k) = Zero

\* a month whose running usage is not a multiple of 0.1 and whose emitted
\* balance is off by a tenth, followed by a later month
C7_Witness ==
    /\ Tracked
    /\ \E k \in 1..Len(Entries) :
          /\ k < Len(Entries)
          /\ ~IsTenth(UsedUpTo(k))
          /\ BalanceGap(k) # Zero
          /\ Entries[k].cumulativeAccumulated # Zero

\* x rounded to one decimal, a tie going away from zero
RoundAway1(x) == Rat(RoundHalfAwayFromZero(RMul(x, RInt(10))), 10)

\* C8: every emitted 1-decimal value (per-month accrual, daysRemaining, the
\* three cumulative values and the three totals) is its unrounded value
\* rounded half away from zero; a balance of -0.25 is emitted as -0.3.
C8_RoundHalfAwayFromZero ==
    Tracked =>
        /\ \A k \in 1..Len(Entries) :
              LET e == Entries[k]
                  accrual ==
                      Rat(getContractedCapacityKwpForMonth(sites, e.yearMonth),
                          12 * KwpPerMW)
              IN  /\ e.daysAccumulated = RoundAway1(accrual)
                  /\ e.daysRemaining
                        = RoundAway1(RSub(e.daysAccumulated, e.daysUsed))
                  /\ e.cumulativeAccumulated = RoundAway1(AccruedUpTo(k))
                  /\ e.cumulativeUsed = RoundAway1(UsedUpTo(k))
                  /\ e.cumulativeRemaining
                        = RoundAway1(RSub(AccruedUpTo(k), UsedUpTo(k)))
        /\ tracking.totalAccumulated = RoundAway1(AccruedUpTo(Len(Entries)))
        /\ tracking.totalUsed = RoundAway1(UsedUpTo(Len(Entries)))
        /\ tracking.totalRemaining
              = RoundAway1(RSub(AccruedUpTo(Len(Entries)),
                                UsedUpTo(Len(Entries))))

\* calendar date a is on or before calendar date b
DateOnOrBefore(a, b) ==
    \/ a[1] < b[1]
    \/ a[1] = b[1] /\ a[2] < b[2]
    \/ a[1] = b[1] /\ a[2] = b[2] /\ a[3] <= b[3]

LastDayOfMonth(ym) == <<ym[1], ym[2], DaysInMonth(ym[1], ym[2])>>

RECURSIVE OnboardedKwp(_, _)
OnboardedKwp(list, ym) ==
    IF list = << >> THEN 0
    ELSE (IF /\ list[1].contractStatus = "Yes"
             /\ list[1].onboardDate # NullDate
             /\ DateOnOrBefore(list[1].onboardDate, LastDayOfMonth(ym))
          THEN list[1].systemSizeKwp ELSE 0)
            + OnboardedKwp(Tail(list), ym)

\* C9: the capacity used for a month is the sum of systemSizeKwp over exactly
\* the contracted sites whose onboardDate is on or before the month's last
\* calendar day (whatever the month's length), so a site onboarded on that
\* last day counts and one onboarded the day after does not.
C9_CapacityAsOfLastDay ==
    pc = "done" => monthCapacity = OnboardedKwp(sites, yearMonth)

NextYearMonth(ym) == IF ym[2] = 12 THEN <<ym[1] + 1, 1>> ELSE <<ym[1], ym[2] + 1>>

MonthOnOrBefore(a, b) == a[1] < b[1] \/ (a[1] = b[1] /\ a[2] <= b[2])

RECURSIVE MonthRange(_, _)
MonthRange(from, to) ==
    IF MonthOnOrBefore(from, to)
    THEN <<from>> \o MonthRange(NextYearMonth(from), to)
    ELSE << >>

StartMonth == <<tracking.portfolioStartDate[1], tracking.portfolioStartDate[2]>>
CurrentMonth == <<getFullYear(now), getMonth(now) + 1>>

\* C10: the month sequence is exactly the calendar months from the month of
\* portfolioStartDate through the current calendar month, both included, in
\* order and one month apart (January follows December).
C10_MonthsFromStartToNow ==
    (Tracked /\ MonthOnOrBefore(StartMonth, CurrentMonth)) =>
        [k \in 1..Len(Entries) |-> Entries[k].yearMonth]
            = MonthRange(StartMonth, CurrentMonth)

\* contracted capacity of the whole list, in kWp
RECURSIVE ContractedKwp(_)
ContractedKwp(list) ==
    IF list = << >> THEN 0
    ELSE (IF list[1].contractStatus = "Yes" THEN list[1].systemSizeKwp ELSE 0)
            + ContractedKwp(Tail(list))

\* C11: each month's daysAccumulated is the contracted capacity as of that
\* month's end, in MW, divided by 12 and rounded to one decimal (so a 12 MW
\* site accrues 1.0 day in every month from its onboarding month on), and
\* the summary's correctiveDaysAllowed is the same formula applied to the
\* current contracted capacity.
C11_AccrualFromMonthEndCapacity ==
    Tracked =>
        /\ \A k \in 1..Len(Entries) :
              Entries[k].daysAccumulated
                = RoundAway1(Rat(OnboardedKwp(sites, Entries[k].yearMonth),
                                 12 * KwpPerMW))
        /\ calculatePortfolioSummary(sites).correctiveDaysAllowed
              = RoundAway1(Rat(ContractedKwp(sites), 12 * KwpPerMW))

\* the places of the contracted sites that have an onboardDate
DatedContracted ==
    {i \in 1..Len(sites) : /\ sites[i].contractStatus = "Yes"
                           /\ sites[i].onboardDate # NullDate}

\* C12: when no contracted site has a non-null onboardDate (no sites, only
\* non-contracted sites, or contracted sites all without a date) the result is
\* portfolioStartDate = null, monthlyData = [] and all three totals 0,
\* whatever usage records exist.
C12_EmptyWithoutStartDate ==
    (pc = "done" /\ DatedContracted = {}) =>
        tracking = [portfolioStartDate |-> NullDate, monthlyData |-> << >>,
                    totalAccumulated |-> Zero, totalUsed |-> Zero,
                    totalRemaining |-> Zero]

\* a contracted site without a date beside a dated site that is not
\* contracted, with usage on record
C12_Witness ==
    /\ pc = "done"
    /\ \E i, j \in 1..Len(sites) :
          /\ sites[i].contractStatus = "Yes" /\ sites[i].onboardDate = NullDate
          /\ sites[j].contractStatus = "No" /\ sites[j].onboardDate # NullDate
    /\ cmDaysUsage # << >>
    /\ tracking.portfolioStartDate = NullDate
    /\ tracking.monthlyData = << >>

IsContracted(s) == s.contractStatus = "Yes"

\* C13: portfolioStartDate is the earliest onboardDate among the sites that
\* are contracted and have an onboardDate: it is the date of one of them, none
\* of them has an earlier date, and sites that are not contracted have no
\* part in it (the result is that of the list without them).
C13_EarliestContractedOnboardDate ==
    (pc = "done" /\ DatedContracted # {}) =>
        /\ \E i \in DatedContracted :
              tracking.portfolioStartDate = sites[i].onboardDate
        /\ \A i \in DatedContracted :
              DateOnOrBefore(tracking.portfolioStartDate, sites[i].onboardDate)
        /\ tracking.portfolioStartDate
              = getPortfolioStartDate(SelectSeq(sites, IsContracted))

\* the start date is the date of the second site, while the first site has an
\* earlier date but is not contracted, or is contracted and has a later date
C13_Witness ==
    /\ pc = "done"
    /\ Len(sites) = 2
    /\ sites[2].contractStatus = "Yes"
    /\ sites[1].onboardDate # NullDate
    /\ sites[2].onboardDate # NullDate
    /\ sites[1].onboardDate # sites[2].onboardDate
    /\ tracking.portfolioStartDate = sites[2].onboardDate
    /\ \/ /\ sites[1].contractStatus = "No"
          /\ DateOnOrBefore(sites[1].onboardDate, sites[2].onboardDate)
       \/ /\ sites[1].contractStatus = "Yes"
          /\ DateOnOrBefore(sites[2].onboardDate, sites[1].onboardDate)

\* C14: totalAccumulated, totalUsed and totalRemaining equal the
\* cumulativeAccumulated, cumulativeUsed and cumulativeRemaining of the last
\* entry of monthlyData, and are all zero when monthlyData is empty.
C14_TotalsAreLastCumulative ==
    pc = "done" =>
        IF tracking.monthlyData = << >>
        THEN /\ tracking.totalAccumulated = Zero
             /\ tracking.totalUsed = Zero
             /\ tracking.totalRemaining = Zero
        ELSE LET last == tracking.monthlyData[Len(tracking.monthlyData)]
             IN  /\ tracking.totalAccumulated = last.cumulativeAccumulated
                 /\ tracking.totalUsed = last.cumulativeUsed
                 /\ tracking.totalRemaining = last.cumulativeRemaining

\* several months, the last one adding to what the first accrued, and usage
\* that is not a whole number of tenths
C14_Witness ==
    /\ Tracked
    /\ Len(Entries) >= 2
    /\ Entries[1].cumulativeAccumulated # Zero
    /\ tracking.totalAccumulated # Entries[1].cumulativeAccumulated
    /\ ~IsTenth(UsedUpTo(Len(Entries)))
    /\ tracking.totalRemaining # Zero

----------------------------------------------------------------------------
(* Claims about the aggregator (checked under SpecSummary)                 *)

\* the sum of the values f holds at keys
RECURSIVE SumOver(_, _)
SumOver(f, keys) ==
    IF keys = {} THEN 0
    ELSE LET k == CHOOSE x \in keys : TRUE
         IN  f[k].n + SumOver(f, keys \ {k})

\* the places of the sites without an SPV code (null or the empty string)
Uncoded == {i \in 1..Len(sites) : sites[i].spvCode \in {NullSpv, <<"">>}}

\* C15: for every list of sites, contracted or not, the counts in sitesBySpv
\* are numbers that sum to totalSites exactly, and every site whose spvCode is
\* null or the empty string is counted under the key "Unassigned".
C15_SpvCountsSumToTotalSites ==
    pc = "done" =>
        /\ summary.totalSites = Len(sites)
        /\ \A k \in DOMAIN summary.sitesBySpv : summary.sitesBySpv[k].isNumber
        /\ SumOver(summary.sitesBySpv, DOMAIN summary.sitesBySpv)
              = summary.totalSites
        /\ Uncoded # {} =>
              /\ "Unassigned" \in DOMAIN summary.sitesBySpv
              /\ summary.sitesBySpv["Unassigned"].n >= Cardinality(Uncoded)

----------------------------------------------------------------------------
(* Claims about the fee calculator on partial records (SpecFeePartial) and *)
(* on any table (SpecFee)                                                  *)

OrZero(x) == IF x = Undefined THEN 0 ELSE x

\* the site with 0 in place of each missing numeric field
ZeroFilled(s) ==
    [s EXCEPT !.systemSizeKwp = OrZero(@), !.pmCost = OrZero(@),
              !.cctvCost = OrZero(@), !.cleaningCost = OrZero(@)]

DerivedFields(r) ==
    <<r.siteFixedCosts, r.portfolioCost_20MW, r.portfolioCost_30MW,
      r.portfolioCost_40MW, r.fixedFee_20MW, r.fixedFee_30MW, r.fixedFee_40MW,
      r.feePerKwp_20MW, r.feePerKwp_30MW, r.feePerKwp_40MW, r.monthlyFee>>

\* C16: a site record whose pmCost, cctvCost, cleaningCost or systemSizeKwp
\* is missing is treated as having 0 there: the calculation does not throw
\* and every derived field is the value obtained with 0 in the field's place.
C16_MissingFieldsAsZero ==
    pc = "done" =>
        /\ siteResult.threw = "no"
        /\ DerivedFields(siteResult)
              = DerivedFields(calculateSiteWithAllTiers(ZeroFilled(site), tiers))

\* C17: for every site and every table of N >= 1 tiers (also with fewer than
\* three tiers or without the three default names)
\* calculateSiteWithAllTiers returns a result, and determinePortfolioTier
\* returns a tier of the table.
C17_TotalOnAnyTable ==
    pc = "done" =>
        /\ siteResult.threw = "no"
        /\ \A c \in CapacityChoices :
              LET found == determinePortfolioTier(c, tiers)
              IN  /\ found.index \in 1..Len(tiers)
                  /\ found.tier = tiers[found.index]

----------------------------------------------------------------------------
(* Claims about repeated calls of the reconciler (checked under SpecAgain) *)

\* C18: the tracking result is a function of the Site records and the
\* CMDaysUsage records alone: two calls of calculateCMDaysTracking with equal
\* sites and equal usage records return equal summaries, whenever each call
\* is made.
C18_SameRecordsSameSummary ==
    pc = "redone" => tracking = earlier

----------------------------------------------------------------------------
(* Claims about POST /api/cm-days (checked under SpecPost)                 *)

\* the request carries a yearMonth that is four digits, "-", two digits
HasYearMonth(req) ==
    /\ req.yearMonth.type = "string"
    /\ Len(req.yearMonth.text) = 7
    /\ \A i \in 1..7 : IF i = 5 THEN req.yearMonth.text[i] = "-"
                        ELSE \E d \in 1..10 : DigitChars[d] = req.yearMonth.text[i]

\* the request carries a daysUsed that is a number and is not negative
HasDaysUsed(req) == req.daysUsed.type = "number" /\ req.daysUsed.value.n >= 0

\* C19: a request whose yearMonth is missing or does not match YYYY-MM, or
\* whose daysUsed is missing, not a number or negative, is answered with
\* status 400 and success = false, upsertCMDaysUsage is not called and the
\* usage records are unchanged; only a request passing all checks reaches the
\* upsert and the recomputation.
C19_ValidatedBeforeUpsert ==
    [][IF HasYearMonth(request) /\ HasDaysUsed(request)
       THEN /\ upserts' = upserts + 1
            /\ response'.success
       ELSE /\ response'.status = 400
            /\ ~response'.success
            /\ upserts' = upserts
            /\ cmDaysUsage' = cmDaysUsage]_vars

----------------------------------------------------------------------------
(* Claims about usage attribution (checked under SpecCM)                   *)

\* the usage recorded under exactly the key ym, 0 if there is none
RecordedUse(ym) ==
    IF \E i \in 1..Len(cmDaysUsage) : cmDaysUsage[i].yearMonth = ym
    THEN cmDaysUsage[CHOOSE i \in 1..Len(cmDaysUsage) :
                        cmDaysUsage[i].yearMonth = ym].daysUsed
    ELSE Zero

EnumeratedMonths == {Entries[k].yearMonth : k \in 1..Len(Entries)}

\* daysUsed summed over the first n usage records, those of enumerated months
RECURSIVE UsedInWindow(_)
UsedInWindow(n) ==
    IF n = 0 THEN Zero
    ELSE RAdd(UsedInWindow(n - 1),
              IF cmDaysUsage[n].yearMonth \in EnumeratedMonths
              THEN cmDaysUsage[n].daysUsed ELSE Zero)

----------------------------------------------------------------------------
(* Claims about the shape of the month sequence (checked under SpecCM)     *)

\* a <= b, for finite a and b
RLeq(a, b) == a.n * b.d <= b.n * a.d

\* the capacity the reconciler uses for the month of entry k, in kWp
CapacityOfEntry(k) == getContractedCapacityKwpForMonth(sites, Entries[k].yearMonth)

\* site i is counted in the month of entry k
CountedIn(i, k) ==
    getContractedCapacityKwpForMonth(<<sites[i]>>, Entries[k].yearMonth)
        = sites[i].systemSizeKwp

\* C21: along the month sequence of one result the per-month contracted
\* capacity, and with it daysAccumulated, never decreases from one month to
\* the next, and cumulativeAccumulated is non-decreasing: a site counted in
\* one month is counted in every later month.
C21_AccrualNeverDecreases ==
    Tracked =>
        \A k \in 1..(Len(Entries) - 1) :
            /\ CapacityOfEntry(k) <= CapacityOfEntry(k + 1)
            /\ RLeq(Entries[k].daysAccumulated, Entries[k + 1].daysAccumulated)
            /\ RLeq(Entries[k].cumulativeAccumulated,
                    Entries[k + 1].cumulativeAccumulated)
            /\ \A i \in 1..Len(sites) : CountedIn(i, k) => CountedIn(i, k + 1)

\* a first month with capacity, and a later month in which a second site
\* joins and the accrual steps up
C21_Witness ==
    /\ Tracked
    /\ Len(Entries) >= 3
    /\ CapacityOfEntry(1) > 0
    /\ \E k \in 2..Len(Entries) :
          /\ CapacityOfEntry(k - 1) < CapacityOfEntry(k)
          /\ Entries[k - 1].daysAccumulated # Entries[k].daysAccumulated
          /\ \E i \in 1..Len(sites) : ~CountedIn(i, k - 1) /\ CountedIn(i, k)

\* the places of the sites whose onboardDate is the returned start date
StartDefining ==
    {i \in DatedContracted : sites[i].onboardDate = tracking.portfolioStartDate}

\* C22: whenever the returned portfolioStartDate is not null, monthlyData is
\* not empty, its first entry is the month that contains portfolioStartDate,
\* and the capacity of that first month includes the site that defines the
\* start date; also when the earliest contracted onboardDate lies in the
\* current month or after the current date.
C22_FirstMonthHoldsStartSite ==
    Tracked =>
        /\ Entries # << >>
        /\ Entries[1].yearMonth = StartMonth
        /\ \A i \in StartDefining : CountedIn(i, 1)

----------------------------------------------------------------------------
(* The CM-days tracker component                                           *)
(* (src/src/components/cm-days/CMDaysTracker.tsx), mounted by the CM-days  *)
(* page without initialData.  Its six useState cells are the variables     *)
(* tracking, isLoading, error, editingMonth, editValue and isSaving.  Each *)
(* fetch() it has started and whose continuation has not run yet is an     *)
(* element of fetches; the route handlers GET and POST of /api/cm-days     *)
(* answer it from the store (sites, cmDaysUsage), or the network loses it. *)
(* A click is one step: React flushes the state updates of a click handler *)
(* before the next event is delivered.                                     *)

\* the most fetch() calls left unsettled at one time
MaxInFlight == 2

\* the most usage entries stored through the page in one behaviour
MaxSaves == 2

\* the string `${year}-${month}` of a month key, the month padded to two digits
YearMonthText(ym) ==
    <<DigitChars[((ym[1] \div 1000) % 10) + 1], DigitChars[((ym[1] \div 100) % 10) + 1],
      DigitChars[((ym[1] \div 10) % 10) + 1], DigitChars[(ym[1] % 10) + 1], "-",
      DigitChars[((ym[2] \div 10) % 10) + 1], DigitChars[(ym[2] % 10) + 1]>>

\* the decimal digits of a natural number
RECURSIVE IntegerText(_)
IntegerText(k) ==
    IF k < 10 THEN <<DigitChars[k + 1]>>
    ELSE Append(IntegerText(k \div 10), DigitChars[(k % 10) + 1])

\* month.daysUsed.toString(), for a finite number of at most two decimals:
\* no trailing zeros, no decimal point on a whole number
NumberToString(x) ==
    LET hundredths == (Abs(x.n) * 100) \div x.d
        whole == IntegerText(hundredths \div 100)
        cents == hundredths % 100
        decimals ==
            IF cents = 0 THEN << >>
            ELSE IF cents % 10 = 0 THEN <<".", DigitChars[(cents \div 10) + 1]>>
            ELSE <<".", DigitChars[(cents \div 10) + 1], DigitChars[(cents % 10) + 1]>>
    IN  (IF x.n < 0 THEN <<"-">> ELSE << >>) \o whole \o decimals

\* how many digits a text starts with
RECURSIVE DigitRun(_)
DigitRun(text) ==
    IF text = << >> \/ ~IsDigit(Head(text)) THEN 0 ELSE 1 + DigitRun(Tail(text))

\* the natural number a text of digits spells (0 for the empty text)
RECURSIVE DigitsValue(_)
DigitsValue(text) ==
    IF text = << >> THEN 0
    ELSE 10 * DigitsValue(SubSeq(text, 1, Len(text) - 1))
            + DigitValue(text[Len(text)])

RECURSIVE PowerOfTen(_)
PowerOfTen(k) == IF k = 0 THEN 1 ELSE 10 * PowerOfTen(k - 1)

\* parseFloat(text), for the texts a number input yields: the longest prefix
\* that reads sign, digits, point, digits; NaN when it holds no digit
\* (exponents and leading blanks are not modelled)
parseFloat(text) ==
    LET negative == text # << >> /\ Head(text) = "-"
        body == IF negative THEN Tail(text) ELSE text
        w == DigitRun(body)
        rest == SubSeq(body, w + 1, Len(body))
        f == IF rest # << >> /\ Head(rest) = "." THEN DigitRun(Tail(rest)) ELSE 0
        magnitude ==
            Rat(DigitsValue(SubSeq(body, 1, w)) * PowerOfTen(f)
                    + DigitsValue(SubSeq(rest, 2, f + 1)),
                PowerOfTen(f))
    IN  IF w + f = 0 THEN NaN
        ELSE IF negative THEN RSub(Zero, magnitude) ELSE magnitude

\* x || 0 on a number: NaN and 0 are falsy
NumberOrZero(x) == IF x = NaN \/ x = Zero THEN Zero ELSE x

\* the GET handler of /api/cm-days on a store holding siteStore and usageStore
GET(siteStore, usageStore) ==
    Answer(200, TRUE, calculateCMDaysTracking(siteStore, usageStore))

\* fetch('/api/cm-days') of fetchTracking, just sent
FetchOfTracking ==
    [method |-> "GET", yearMonth |-> NullMonth, request |-> NoRequest,
     state |-> "sent", response |-> NoResponse]

\* fetch('/api/cm-days', {method: 'POST', body: JSON.stringify({yearMonth,
\* daysUsed})}) of handleSaveClick(yearMonth), just sent
FetchOfSave(ym, daysUsed) ==
    [method |-> "POST", yearMonth |-> ym,
     request |-> [body |-> "object", yearMonth |-> JsonString(YearMonthText(ym)),
                  daysUsed |-> JsonNumber(daysUsed)],
     state |-> "sent", response |-> NoResponse]

\* fetches without its k-th element
Settled(k) == SubSeq(fetches, 1, k - 1) \o SubSeq(fetches, k + 1, Len(fetches))

\* data.error of a response with success false: every such response of the
\* route carries a non-empty message, kept here by its status
ErrorOf(res) == <<IF res.status = 400 THEN "rejected" ELSE "failed">>

\* the render reaches the table: not loading, no error, a tracking with a
\* portfolioStartDate
TableShown ==
    /\ ~isLoading
    /\ error = NullError
    /\ "monthlyData" \in DOMAIN tracking
    /\ tracking.portfolioStartDate # NullDate

\* the rows of the table, one per month entry
Rows == IF TableShown THEN {tracking.monthlyData[k] : k \in 1..Len(tracking.monthlyData)} ELSE {}

\* the texts typed into the input: empty, 2.5, 0, -1
TypedTexts == {<< >>, <<"2", ".", "5">>, <<"0">>, <<"-", "1">>}

\* the store behind the page: one contracted 12 MW site onboarded 2024-02-29,
\* seen on 2024-03-31 at UTC, so the table has the rows 2024-02 and 2024-03
InitTracker ==
    /\ pc = "mounted"
    /\ tiers = DEFAULT_RATE_TIERS
    /\ capacityKwp = 0
    /\ tierResult = NoTier
    /\ site = IdleSite
    /\ siteResult = NoSiteResult
    /\ sites \in {<< >>, <<Site(12000, "Yes", <<2024, 2, 29>>, 0, 0, 0, NullSpv)>>}
    /\ cmDaysUsage \in {<< >>, <<CMDaysUsage(<<2024, 3>>, Rat(5, 4))>>}
    /\ now = DayNumber(2024, 3, 31) * 24 + 23
    /\ tz = 0
    /\ tracking = NoTracking
    /\ yearMonth = << >>
    /\ monthCapacity = 0
    /\ summary = NoSummary
    /\ earlier = NoTracking
    /\ request = NoRequest
    /\ response = NoResponse
    /\ upserts = 0
    /\ isLoading = TRUE
    /\ error = NullError
    /\ editingMonth = NullMonth
    /\ editValue = << >>
    /\ isSaving = FALSE
    /\ fetches = <<FetchOfTracking>>

\* a route handler answers the k-th fetch from the store
RouteAnswers(k) ==
    /\ fetches[k].state = "sent"
    /\ IF fetches[k].method = "GET"
       THEN /\ fetches' = [fetches EXCEPT ![k].state = "answered",
                                          ![k].response = GET(sites, cmDaysUsage)]
            /\ UNCHANGED <<cmDaysUsage, upserts>>
       ELSE LET done == POST(fetches[k].request, sites, cmDaysUsage)
            IN  /\ fetches' = [fetches EXCEPT ![k].state = "answered",
                                              ![k].response = done.response]
                /\ cmDaysUsage' = done.cmDaysUsage
                /\ upserts' = IF done.upserted THEN upserts + 1 ELSE upserts
    /\ UNCHANGED <<pc, tiers, capacityKwp, tierResult, site, siteResult, sites,
                   now, tz, tracking, yearMonth, monthCapacity, summary,
                   earlier, request, response, isLoading, error, editingMonth,
                   editValue, isSaving>>

\* the k-th fetch is lost: the request on its way to the server or the
\* response on its way back, so fetch() or res.json() rejects
NetworkFails(k) ==
    /\ fetches[k].state \in {"sent", "answered"}
    /\ fetches' = [fetches EXCEPT ![k].state = "failed"]
    /\ UNCHANGED <<pc, tiers, capacityKwp, tierResult, site, siteResult, sites,
                   cmDaysUsage, now, tz, tracking, yearMonth, monthCapacity,
                   summary, earlier, request, response, upserts, isLoading,
                   error, editingMonth, editValue, isSaving>>

\* fetchTracking after its awaits: the try, catch and finally blocks
FetchTrackingSettles(k) ==
    /\ fetches[k].method = "GET"
    /\ fetches[k].state \in {"answered", "failed"}
    /\ IF fetches[k].state = "failed"
       THEN /\ error' = <<"Failed to fetch CM days tracking data">>
            /\ UNCHANGED tracking
       ELSE IF fetches[k].response.success
       THEN /\ tracking' = fetches[k].response.data
            /\ UNCHANGED error
       ELSE /\ error' = ErrorOf(fetches[k].response)
            /\ UNCHANGED tracking
    /\ isLoading' = FALSE
    /\ fetches' = Settled(k)
    /\ UNCHANGED <<pc, tiers, capacityKwp, tierResult, site, siteResult, sites,
                   cmDaysUsage, now, tz, yearMonth, monthCapacity, summary,
                   earlier, request, response, upserts, editingMonth,
                   editValue, isSaving>>

\* handleEditClick(month), from the Edit button of a row that is not being
\* edited
HandleEditClick(month) ==
    /\ month \in Rows
    /\ editingMonth # month.yearMonth
    /\ editingMonth' = month.yearMonth
    /\ editValue' = NumberToString(month.daysUsed)
    /\ UNCHANGED <<pc, tiers, capacityKwp, tierResult, site, siteResult, sites,
                   cmDaysUsage, now, tz, tracking, yearMonth, monthCapacity,
                   summary, earlier, request, response, upserts, isLoading,
                   error, isSaving, fetches>>

\* onChange of the input of the row being edited
HandleChange(text) ==
    /\ \E month \in Rows : editingMonth = month.yearMonth
    /\ editValue' = text
    /\ UNCHANGED <<pc, tiers, capacityKwp, tierResult, site, siteResult, sites,
                   cmDaysUsage, now, tz, tracking, yearMonth, monthCapacity,
                   summary, earlier, request, response, upserts, isLoading,
                   error, editingMonth, isSaving, fetches>>

\* handleSaveClick(month.yearMonth) up to its first await, from the Save
\* button of the row being edited, which is disabled while isSaving
HandleSaveClick(month) ==
    /\ month \in Rows
    /\ editingMonth = month.yearMonth
    /\ ~isSaving
    /\ Len(fetches) < MaxInFlight
    /\ upserts < MaxSaves
    /\ isSaving' = TRUE
    /\ fetches' = Append(fetches,
                         FetchOfSave(month.yearMonth,
                                     NumberOrZero(parseFloat(editValue))))
    /\ UNCHANGED <<pc, tiers, capacityKwp, tierResult, site, siteResult, sites,
                   cmDaysUsage, now, tz, tracking, yearMonth, monthCapacity,
                   summary, earlier, request, response, upserts, isLoading,
                   error, editingMonth, editValue>>

\* handleSaveClick after its awaits: the try, catch and finally blocks
SaveSettles(k) ==
    /\ fetches[k].method = "POST"
    /\ fetches[k].state \in {"answered", "failed"}
    /\ IF fetches[k].state = "failed"
       THEN /\ error' = <<"Failed to save CM days usage">>
            /\ UNCHANGED <<tracking, editingMonth, editValue>>
       ELSE IF fetches[k].response.success
       THEN /\ tracking' = fetches[k].response.data
            /\ editingMonth' = NullMonth
            /\ editValue' = << >>
            /\ UNCHANGED error
       ELSE /\ error' = ErrorOf(fetches[k].response)
            /\ UNCHANGED <<tracking, editingMonth, editValue>>
    /\ isSaving' = FALSE
    /\ fetches' = Settled(k)
    /\ UNCHANGED <<pc, tiers, capacityKwp, tierResult, site, siteResult, sites,
                   cmDaysUsage, now, tz, yearMonth, monthCapacity, summary,
                   earlier, request, response, upserts, isLoading>>

\* handleCancelEdit, from the Cancel button of the row being edited, which is
\* disabled while isSaving
HandleCancelEdit ==
    /\ \E month \in Rows : editingMonth = month.yearMonth
    /\ ~isSaving
    /\ editingMonth' = NullMonth
    /\ editValue' = << >>
    /\ UNCHANGED <<pc, tiers, capacityKwp, tierResult, site, siteResult, sites,
                   cmDaysUsage, now, tz, tracking, yearMonth, monthCapacity,
                   summary, earlier, request, response, upserts, isLoading,
                   error, isSaving, fetches>>

NextTracker ==
    \/ \E k \in 1..Len(fetches) : RouteAnswers(k)
    \/ \E k \in 1..Len(fetches) : NetworkFails(k)
    \/ \E k \in 1..Len(fetches) : FetchTrackingSettles(k)
    \/ \E month \in Rows : HandleEditClick(month)
    \/ \E text \in TypedTexts : HandleChange(text)
    \/ \E month \in Rows : HandleSaveClick(month)
    \/ \E k \in 1..Len(fetches) : SaveSettles(k)
    \/ HandleCancelEdit

SpecTracker == InitTracker /\ [][NextTracker]_vars

----------------------------------------------------------------------------
(* Claim C23: the tracker component under interleaved clicks and responses *)

\* the saves whose fetch has not settled
SavesInFlight == {k \in 1..Len(fetches) : fetches[k].method = "POST"}

\* C23: in every step of the component at most one save is in flight
\* afterwards; a step that settles a save (success, server-reported failure or
\* network error) leaves isSaving false; and a step that settles the save of
\* month A while another month (or none) is being edited leaves editingMonth
\* and editValue as they were.
C23_SaveSettlesOnlyItsOwnEditor ==
    [][/\ Cardinality(SavesInFlight') <= 1
       /\ \A k \in SavesInFlight :
            SaveSettles(k) =>
                /\ ~isSaving'
                /\ editingMonth # fetches[k].yearMonth
                        => UNCHANGED <<editingMonth, editValue>>]_vars

====
